---- MODULE Spec2Model ----
(***************************************************************************)
(* The thread pool of skynet_start.c: _start creates the monitor           *)
(* (scheduler state), spawns _monitor, _timer, _socket and `thread`        *)
(* _worker threads, joins them and frees the monitor.                      *)
(*                                                                         *)
(* Thread k of the pid[] array: 0 = _monitor, 1 = _timer, 2 = _socket,     *)
(* 3 + i = _worker with id i.                                              *)
(***************************************************************************)
EXTENDS Integers, FiniteSets

\* Bounds of the model.
MaxWorkers == 2      \* config->thread ranges over 1..MaxWorkers
MaxLive == 1         \* skynet_context_total() ranges over 0..MaxLive

\* for (i=0;i<5;i++) { CHECK_ABORT sleep(1); }
NapCount == 5

VARIABLES
    count,      \* m->count
    sleep,      \* m->sleep
    mutex,      \* owner of m->mutex: a worker id, or -1 when unlocked
    mstate,     \* the monitor structure: "none", "ready" (allocated), "freed"
    opc,        \* _start: "alloc", "mutex_init", "cond_init", "create", "join", "free", "done"
    created,    \* number of pid[] entries created so far
    joined,     \* number of pid[] entries joined so far
    exited,     \* exit(1) was called
    live,       \* skynet_context_total()
    netExit,    \* skynet_socket_exit() was called
    mpc,        \* _monitor: "top", "check", "nap", "sleeping", "done"
    mi,         \* _monitor: loop index i
    tpc,        \* _timer: "tick", "wakeup", "signal", "sockexit", "broadcast", "done"
    spc,        \* _socket: "poll", "wakeup", "signal", "done"
    wpc,        \* _worker[id]: "dispatch", "in_dispatch", "check_abort", "lock", "inc",
                \*   "wait", "waiting", "woken", "dec", "unlock", "done"
    fresh,      \* skynet_monitor[id]: version # check_version
    flagged,    \* skynet_monitor[id]: the endless-loop diagnostic was raised for the
                \*   message being dispatched
    checks,     \* history: checks of detector id during the current dispatch (0..2)
    cycle       \* history: checks of detector id in the Watchdog's current outer cycle

vars == <<count, sleep, mutex, mstate, opc, created, joined, exited, live, netExit,
          mpc, mi, tpc, spc, wpc, fresh, flagged, checks, cycle>>

orch == <<mstate, opc, created, joined>>
mon == <<mpc, mi, cycle>>
det == <<fresh, flagged, checks>>

Workers == 0 .. (count - 1)
Threads == 0 .. (count + 2)

Min(a, b) == IF a < b THEN a ELSE b

\* pthread_create has run for pid[k]
Started(k) == created > k

\* the thread function of pid[k] has returned
ThreadDone(k) ==
    IF k = 0 THEN mpc = "done"
    ELSE IF k = 1 THEN tpc = "done"
    ELSE IF k = 2 THEN spc = "done"
    ELSE wpc[k - 3] = "done"

\* workers blocked inside pthread_cond_wait
Waiting == {i \in Workers : wpc[i] = "waiting"}

Init ==
    /\ count \in 1 .. MaxWorkers
    /\ sleep = 0
    /\ mutex = -1
    /\ mstate = "none"
    /\ opc = "alloc"
    /\ created = 0
    /\ joined = 0
    /\ exited = FALSE
    /\ live \in 1 .. MaxLive
    /\ netExit = FALSE
    /\ mpc = "top"
    /\ mi = 0
    /\ tpc = "tick"
    /\ spc = "poll"
    /\ wpc = [i \in Workers |-> "dispatch"]
    /\ fresh = [i \in Workers |-> FALSE]
    /\ flagged = [i \in Workers |-> FALSE]
    /\ checks = [i \in Workers |-> 0]
    /\ cycle = [i \in Workers |-> 0]

----------------------------------------------------------------------------
\* _start

\* skynet_malloc, m->count = thread, m->sleep = 0, skynet_monitor_new() per worker
StartAlloc ==
    /\ ~exited /\ opc = "alloc"
    /\ mstate' = "ready"
    /\ sleep' = 0
    /\ opc' = "mutex_init"
    /\ UNCHANGED <<count, mutex, created, joined, exited, live, netExit,
                   mon, tpc, spc, wpc, det>>

StartMutexInit ==
    /\ ~exited /\ opc = "mutex_init"
    /\ opc' = "cond_init"
    /\ UNCHANGED <<count, sleep, mutex, mstate, created, joined, exited, live, netExit,
                   mon, tpc, spc, wpc, det>>

StartCondInit ==
    /\ ~exited /\ opc = "cond_init"
    /\ opc' = "create"
    /\ UNCHANGED <<count, sleep, mutex, mstate, created, joined, exited, live, netExit,
                   mon, tpc, spc, wpc, det>>

\* pthread_mutex_init or pthread_cond_init returns nonzero: exit(1)
StartInitFail ==
    /\ ~exited /\ opc \in {"mutex_init", "cond_init"}
    /\ exited' = TRUE
    /\ UNCHANGED <<count, sleep, mutex, orch, live, netExit, mon, tpc, spc, wpc, det>>

\* create_thread(&pid[created], ...) succeeds
create_thread ==
    /\ ~exited /\ opc = "create"
    /\ created' = created + 1
    /\ opc' = IF created + 1 = count + 3 THEN "join" ELSE "create"
    /\ UNCHANGED <<count, sleep, mutex, mstate, joined, exited, live, netExit,
                   mon, tpc, spc, wpc, det>>

\* pthread_create fails: exit(1)
create_thread_fail ==
    /\ ~exited /\ opc = "create"
    /\ exited' = TRUE
    /\ UNCHANGED <<count, sleep, mutex, orch, live, netExit, mon, tpc, spc, wpc, det>>

\* a join loop that stops one thread short
JoinBound_Short == count + 2

\* number of pid[] entries the join loop waits for
JoinBound == count + 3

\* pthread_join(pid[joined], NULL)
StartJoin ==
    /\ ~exited /\ opc = "join"
    /\ joined < JoinBound
    /\ ThreadDone(joined)
    /\ joined' = joined + 1
    /\ opc' = IF joined + 1 = JoinBound THEN "free" ELSE "join"
    /\ UNCHANGED <<count, sleep, mutex, mstate, created, exited, live, netExit,
                   mon, tpc, spc, wpc, det>>

free_monitor ==
    /\ ~exited /\ opc = "free"
    /\ mstate' = "freed"
    /\ opc' = "done"
    /\ UNCHANGED <<count, sleep, mutex, created, joined, exited, live, netExit,
                   mon, tpc, spc, wpc, det>>

----------------------------------------------------------------------------
\* skynet_monitor (the StallDetector) and the process-wide collaborators

\* skynet_monitor_trigger(sm, source, destination): bumps sm->version
MonitorTrigger(i) == [fresh EXCEPT ![i] = TRUE]

\* skynet_monitor_check(sm): version unchanged since the last check while a
\* destination is set raises the diagnostic; otherwise the snapshot is refreshed
MonitorCheckFlag(i) == ~fresh[i] /\ wpc[i] = "in_dispatch"

\* values skynet_context_total() can take after one message was dispatched
LiveAfterDispatch ==
    IF live = 0 THEN {0} ELSE {live - 1, live, Min(live + 1, MaxLive)}

----------------------------------------------------------------------------
\* _monitor

\* for (;;) { CHECK_ABORT
MonitorTop ==
    /\ ~exited /\ Started(0) /\ mpc = "top"
    /\ IF live = 0
         THEN mpc' = "done" /\ UNCHANGED <<mi, cycle>>
         ELSE mpc' = "check" /\ mi' = 0 /\ cycle' = [i \in Workers |-> 0]
    /\ UNCHANGED <<count, sleep, mutex, orch, exited, live, netExit, tpc, spc, wpc, det>>

\* a check loop that stops one detector short
MonitorBound_Short == IF count > 1 THEN count - 1 ELSE count

\* number of detectors one cycle checks
MonitorBound == count

\* for (i=0;i<n;i++) skynet_monitor_check(m->m[i]);
MonitorCheck ==
    /\ ~exited /\ Started(0) /\ mpc = "check"
    /\ flagged' = [flagged EXCEPT ![mi] = flagged[mi] \/ MonitorCheckFlag(mi)]
    /\ fresh' = [fresh EXCEPT ![mi] = FALSE]
    /\ checks' = [checks EXCEPT ![mi] =
                    IF wpc[mi] = "in_dispatch" THEN Min(checks[mi] + 1, 2) ELSE 0]
    /\ cycle' = [cycle EXCEPT ![mi] = cycle[mi] + 1]
    /\ IF mi + 1 < MonitorBound
         THEN mi' = mi + 1 /\ mpc' = "check"
         ELSE mi' = 0 /\ mpc' = "nap"
    /\ UNCHANGED <<count, sleep, mutex, orch, exited, live, netExit, tpc, spc, wpc>>

\* MonitorNap without the CHECK_ABORT before sleep(1)
MonitorNap_NoAbort ==
    /\ ~exited /\ Started(0) /\ mpc = "nap"
    /\ mpc' = "sleeping"
    /\ UNCHANGED <<count, sleep, mutex, orch, exited, live, netExit, mi, cycle,
                   tpc, spc, wpc, det>>

\* for (i=0;i<5;i++) { CHECK_ABORT ...: the break leaves the inner loop only,
\* and the outer for (;;) starts over at its own CHECK_ABORT
MonitorNap ==
    /\ ~exited /\ Started(0) /\ mpc = "nap"
    /\ IF live = 0
         THEN mpc' = "top" /\ mi' = 0
         ELSE mpc' = "sleeping" /\ mi' = mi
    /\ UNCHANGED <<count, sleep, mutex, orch, exited, live, netExit, cycle,
                   tpc, spc, wpc, det>>

\* ... sleep(1); }: the sleep returns; i++
MonitorSleep ==
    /\ ~exited /\ Started(0) /\ mpc = "sleeping"
    /\ IF mi + 1 < NapCount
         THEN mi' = mi + 1 /\ mpc' = "nap"
         ELSE mi' = 0 /\ mpc' = "top"
    /\ UNCHANGED <<count, sleep, mutex, orch, exited, live, netExit, cycle,
                   tpc, spc, wpc, det>>

----------------------------------------------------------------------------
\* the condition variable

\* pthread_cond_signal(&m->cond): one blocked waiter, if any, is released
CondSignal ==
    IF Waiting = {}
      THEN wpc' = wpc
      ELSE \E i \in Waiting : wpc' = [wpc EXCEPT ![i] = "woken"]

\* pthread_cond_broadcast(&m->cond): every blocked waiter is released
CondBroadcast ==
    wpc' = [i \in Workers |-> IF wpc[i] = "waiting" THEN "woken" ELSE wpc[i]]

\* wakeup with > in place of >=
wakeup_strict(busy) == sleep > count - busy

\* if (m->sleep >= m->count - busy)
wakeup(busy) == sleep >= count - busy

----------------------------------------------------------------------------
\* _timer

\* the busy argument of the Timer's wakeup call
TimerBusy == count - 1

\* skynet_updatetime(); CHECK_ABORT
TimerTick ==
    /\ ~exited /\ Started(1) /\ tpc = "tick"
    /\ tpc' = IF live = 0 THEN "sockexit" ELSE "wakeup"
    /\ UNCHANGED <<count, sleep, mutex, orch, exited, live, netExit, mon, spc, wpc, det>>

\* wakeup(m,m->count-1): the test of m->sleep; usleep(2500) when it fails
TimerWakeup ==
    /\ ~exited /\ Started(1) /\ tpc = "wakeup"
    /\ tpc' = IF wakeup(TimerBusy) THEN "signal" ELSE "tick"
    /\ UNCHANGED <<count, sleep, mutex, orch, exited, live, netExit, mon, spc, wpc, det>>

\* TimerSignal without the pthread_cond_signal call
TimerSignal_Lost ==
    /\ ~exited /\ Started(1) /\ tpc = "signal"
    /\ tpc' = "tick"
    /\ UNCHANGED <<count, sleep, mutex, orch, exited, live, netExit, mon, spc, wpc, det>>

\* TimerSignal with pthread_cond_broadcast in place of pthread_cond_signal
TimerSignal_Broadcast ==
    /\ ~exited /\ Started(1) /\ tpc = "signal"
    /\ CondBroadcast
    /\ tpc' = "tick"
    /\ UNCHANGED <<count, sleep, mutex, orch, exited, live, netExit, mon, spc, det>>

\* wakeup(m,m->count-1): pthread_cond_signal; usleep(2500)
TimerSignal ==
    /\ ~exited /\ Started(1) /\ tpc = "signal"
    /\ CondSignal
    /\ tpc' = "tick"
    /\ UNCHANGED <<count, sleep, mutex, orch, exited, live, netExit, mon, spc, det>>

\* the shutdown path without the skynet_socket_exit() call
TimerSocketExit_Skipped ==
    /\ ~exited /\ Started(1) /\ tpc = "sockexit"
    /\ tpc' = "broadcast"
    /\ UNCHANGED <<count, sleep, mutex, orch, exited, live, netExit, mon, spc, wpc, det>>

\* skynet_socket_exit()
TimerSocketExit ==
    /\ ~exited /\ Started(1) /\ tpc = "sockexit"
    /\ netExit' = TRUE
    /\ tpc' = "broadcast"
    /\ UNCHANGED <<count, sleep, mutex, orch, exited, live, mon, spc, wpc, det>>

\* pthread_cond_broadcast(&m->cond); return NULL
TimerBroadcast ==
    /\ ~exited /\ Started(1) /\ tpc = "broadcast"
    /\ CondBroadcast
    /\ tpc' = "done"
    /\ UNCHANGED <<count, sleep, mutex, orch, exited, live, netExit, mon, spc, det>>

----------------------------------------------------------------------------
\* _socket

\* results skynet_socket_poll() can return: 0 (closed) once skynet_socket_exit()
\* was called; until then a negative (transient) or a positive (activity) value
skynet_socket_poll == IF netExit THEN {0} ELSE {-1, 1}

\* skynet_socket_poll() returns 0: break
SocketPollClosed ==
    /\ ~exited /\ Started(2) /\ spc = "poll"
    /\ 0 \in skynet_socket_poll
    /\ spc' = "done"
    /\ UNCHANGED <<count, sleep, mutex, orch, exited, live, netExit, mon, tpc, wpc, det>>

\* SocketPollTransient treating r < 0 as activity
SocketPollTransient_Wakes ==
    /\ ~exited /\ Started(2) /\ spc = "poll"
    /\ \E r \in skynet_socket_poll : r < 0
    /\ spc' = IF live = 0 THEN "done" ELSE "wakeup"
    /\ UNCHANGED <<count, sleep, mutex, orch, exited, live, netExit, mon, tpc, wpc, det>>

\* skynet_socket_poll() returns r < 0: CHECK_ABORT, continue
SocketPollTransient ==
    /\ ~exited /\ Started(2) /\ spc = "poll"
    /\ \E r \in skynet_socket_poll : r < 0
    /\ spc' = IF live = 0 THEN "done" ELSE "poll"
    /\ UNCHANGED <<count, sleep, mutex, orch, exited, live, netExit, mon, tpc, wpc, det>>

\* skynet_socket_poll() returns r > 0
SocketPollActivity ==
    /\ ~exited /\ Started(2) /\ spc = "poll"
    /\ \E r \in skynet_socket_poll : r > 0
    /\ spc' = "wakeup"
    /\ UNCHANGED <<count, sleep, mutex, orch, exited, live, netExit, mon, tpc, wpc, det>>

\* SocketWakeup calling wakeup(m,m->count-1) as the Timer does
SocketWakeup_TimerBusy ==
    /\ ~exited /\ Started(2) /\ spc = "wakeup"
    /\ spc' = IF wakeup(count - 1) THEN "signal" ELSE "poll"
    /\ UNCHANGED <<count, sleep, mutex, orch, exited, live, netExit, mon, tpc, wpc, det>>

\* wakeup(m,0): the test of m->sleep
SocketWakeup ==
    /\ ~exited /\ Started(2) /\ spc = "wakeup"
    /\ spc' = IF wakeup(0) THEN "signal" ELSE "poll"
    /\ UNCHANGED <<count, sleep, mutex, orch, exited, live, netExit, mon, tpc, wpc, det>>

\* wakeup(m,0): pthread_cond_signal
SocketSignal ==
    /\ ~exited /\ Started(2) /\ spc = "signal"
    /\ CondSignal
    /\ spc' = "poll"
    /\ UNCHANGED <<count, sleep, mutex, orch, exited, live, netExit, mon, tpc, det>>

----------------------------------------------------------------------------
\* _worker

\* Running for a process in which threads outlive exit(1)
Running_AfterExit(i) == i \in Workers /\ Started(i + 3)

Running(i) == ~exited /\ i \in Workers /\ Started(i + 3)

\* skynet_context_message_dispatch(sm) takes a message: trigger(sm, source, destination)
WorkerDispatchBegin(i) ==
    /\ Running(i) /\ wpc[i] = "dispatch"
    /\ live > 0
    /\ wpc' = [wpc EXCEPT ![i] = "in_dispatch"]
    /\ fresh' = MonitorTrigger(i)
    /\ flagged' = [flagged EXCEPT ![i] = FALSE]
    /\ checks' = [checks EXCEPT ![i] = 0]
    /\ UNCHANGED <<count, sleep, mutex, orch, exited, live, netExit, mon, tpc, spc>>

\* WorkerDispatchEnd with the sense of dispatch's result inverted
WorkerDispatchEnd_Inverted(i) ==
    /\ Running(i) /\ wpc[i] = "in_dispatch"
    /\ wpc' = [wpc EXCEPT ![i] = "check_abort"]
    /\ fresh' = MonitorTrigger(i)
    /\ flagged' = [flagged EXCEPT ![i] = FALSE]
    /\ checks' = [checks EXCEPT ![i] = 0]
    /\ live' \in LiveAfterDispatch
    /\ UNCHANGED <<count, sleep, mutex, orch, exited, netExit, mon, tpc, spc>>

\* the message callback returns: trigger(sm, 0, 0); dispatch returns 0
WorkerDispatchEnd(i) ==
    /\ Running(i) /\ wpc[i] = "in_dispatch"
    /\ wpc' = [wpc EXCEPT ![i] = "dispatch"]
    /\ fresh' = MonitorTrigger(i)
    /\ flagged' = [flagged EXCEPT ![i] = FALSE]
    /\ checks' = [checks EXCEPT ![i] = 0]
    /\ live' \in LiveAfterDispatch
    /\ UNCHANGED <<count, sleep, mutex, orch, exited, netExit, mon, tpc, spc>>

\* skynet_context_message_dispatch(sm) finds no message and returns nonzero
WorkerDispatchIdle(i) ==
    /\ Running(i) /\ wpc[i] = "dispatch"
    /\ wpc' = [wpc EXCEPT ![i] = "check_abort"]
    /\ UNCHANGED <<count, sleep, mutex, orch, exited, live, netExit, mon, tpc, spc, det>>

\* WorkerCheckAbort without the break
WorkerCheckAbort_NoBreak(i) ==
    /\ Running(i) /\ wpc[i] = "check_abort"
    /\ wpc' = [wpc EXCEPT ![i] = "lock"]
    /\ UNCHANGED <<count, sleep, mutex, orch, exited, live, netExit, mon, tpc, spc, det>>

\* CHECK_ABORT
WorkerCheckAbort(i) ==
    /\ Running(i) /\ wpc[i] = "check_abort"
    /\ wpc' = [wpc EXCEPT ![i] = IF live = 0 THEN "done" ELSE "lock"]
    /\ UNCHANGED <<count, sleep, mutex, orch, exited, live, netExit, mon, tpc, spc, det>>

\* pthread_mutex_lock(&m->mutex) == 0
WorkerLock(i) ==
    /\ Running(i) /\ wpc[i] = "lock"
    /\ mutex = -1
    /\ mutex' = i
    /\ wpc' = [wpc EXCEPT ![i] = "inc"]
    /\ UNCHANGED <<count, sleep, orch, exited, live, netExit, mon, tpc, spc, det>>

\* WorkerLockFail entering the if body although the lock was not taken
WorkerLockFail_Proceeds(i) ==
    /\ Running(i) /\ wpc[i] = "lock"
    /\ wpc' = [wpc EXCEPT ![i] = "inc"]
    /\ UNCHANGED <<count, sleep, mutex, orch, exited, live, netExit, mon, tpc, spc, det>>

\* pthread_mutex_lock(&m->mutex) != 0: back to the top of the loop
WorkerLockFail(i) ==
    /\ Running(i) /\ wpc[i] = "lock"
    /\ wpc' = [wpc EXCEPT ![i] = "dispatch"]
    /\ UNCHANGED <<count, sleep, mutex, orch, exited, live, netExit, mon, tpc, spc, det>>

\* WorkerInc counting the worker twice
WorkerInc_Twice(i) ==
    /\ Running(i) /\ wpc[i] = "inc"
    /\ sleep' = sleep + 2
    /\ wpc' = [wpc EXCEPT ![i] = "wait"]
    /\ UNCHANGED <<count, mutex, orch, exited, live, netExit, mon, tpc, spc, det>>

\* WorkerInc without the increment
WorkerInc_Forgotten(i) ==
    /\ Running(i) /\ wpc[i] = "inc"
    /\ wpc' = [wpc EXCEPT ![i] = "wait"]
    /\ UNCHANGED <<count, sleep, mutex, orch, exited, live, netExit, mon, tpc, spc, det>>

\* ++ m->sleep
WorkerInc(i) ==
    /\ Running(i) /\ wpc[i] = "inc"
    /\ sleep' = sleep + 1
    /\ wpc' = [wpc EXCEPT ![i] = "wait"]
    /\ UNCHANGED <<count, mutex, orch, exited, live, netExit, mon, tpc, spc, det>>

\* pthread_cond_wait(&m->cond, &m->mutex): releases the mutex and blocks
WorkerWait(i) ==
    /\ Running(i) /\ wpc[i] = "wait"
    /\ mutex' = -1
    /\ wpc' = [wpc EXCEPT ![i] = "waiting"]
    /\ UNCHANGED <<count, sleep, orch, exited, live, netExit, mon, tpc, spc, det>>

\* pthread_cond_wait: a spurious wakeup
WorkerSpurious(i) ==
    /\ Running(i) /\ wpc[i] = "waiting"
    /\ wpc' = [wpc EXCEPT ![i] = "woken"]
    /\ UNCHANGED <<count, sleep, mutex, orch, exited, live, netExit, mon, tpc, spc, det>>

\* pthread_cond_wait: the released waiter re-acquires the mutex and returns
WorkerReacquire(i) ==
    /\ Running(i) /\ wpc[i] = "woken"
    /\ mutex = -1
    /\ mutex' = i
    /\ wpc' = [wpc EXCEPT ![i] = "dec"]
    /\ UNCHANGED <<count, sleep, orch, exited, live, netExit, mon, tpc, spc, det>>

\* WorkerDec without the decrement
WorkerDec_Forgotten(i) ==
    /\ Running(i) /\ wpc[i] = "dec"
    /\ wpc' = [wpc EXCEPT ![i] = "unlock"]
    /\ UNCHANGED <<count, sleep, mutex, orch, exited, live, netExit, mon, tpc, spc, det>>

\* -- m->sleep
WorkerDec(i) ==
    /\ Running(i) /\ wpc[i] = "dec"
    /\ sleep' = sleep - 1
    /\ wpc' = [wpc EXCEPT ![i] = "unlock"]
    /\ UNCHANGED <<count, mutex, orch, exited, live, netExit, mon, tpc, spc, det>>

\* WorkerUnlock that leaves the mutex locked
WorkerUnlock_Held(i) ==
    /\ Running(i) /\ wpc[i] = "unlock"
    /\ wpc' = [wpc EXCEPT ![i] = "dispatch"]
    /\ UNCHANGED <<count, sleep, mutex, orch, exited, live, netExit, mon, tpc, spc, det>>

\* pthread_mutex_unlock(&m->mutex) == 0
WorkerUnlock(i) ==
    /\ Running(i) /\ wpc[i] = "unlock"
    /\ mutex' = -1
    /\ wpc' = [wpc EXCEPT ![i] = "dispatch"]
    /\ UNCHANGED <<count, sleep, orch, exited, live, netExit, mon, tpc, spc, det>>

\* pthread_mutex_unlock(&m->mutex) != 0: exit(1)
WorkerUnlockFail(i) ==
    /\ Running(i) /\ wpc[i] = "unlock"
    /\ exited' = TRUE
    /\ UNCHANGED <<count, sleep, mutex, orch, live, netExit, mon, tpc, spc, wpc, det>>

----------------------------------------------------------------------------
\* specifications

WorkerDispatch == \E i \in Workers : WorkerDispatchBegin(i)
WorkerReturn == \E i \in Workers : WorkerDispatchEnd(i)
WorkerIdle == \E i \in Workers : WorkerDispatchIdle(i)
WorkerAbort == \E i \in Workers : WorkerCheckAbort(i)
WorkerLocks == \E i \in Workers : WorkerLock(i)
WorkerLockFails == \E i \in Workers : WorkerLockFail(i)
WorkerIncs == \E i \in Workers : WorkerInc(i)
WorkerWaits == \E i \in Workers : WorkerWait(i)
WorkerSpuriousWake == \E i \in Workers : WorkerSpurious(i)
WorkerReacquires == \E i \in Workers : WorkerReacquire(i)
WorkerDecs == \E i \in Workers : WorkerDec(i)
WorkerUnlocks == \E i \in Workers : WorkerUnlock(i)
WorkerUnlockFails == \E i \in Workers : WorkerUnlockFail(i)

Next ==
    \/ StartAlloc \/ StartMutexInit \/ StartCondInit \/ StartInitFail
    \/ create_thread \/ create_thread_fail \/ StartJoin \/ free_monitor
    \/ MonitorTop \/ MonitorCheck \/ MonitorNap \/ MonitorSleep
    \/ TimerTick \/ TimerWakeup \/ TimerSignal \/ TimerSocketExit \/ TimerBroadcast
    \/ SocketPollClosed \/ SocketPollTransient \/ SocketPollActivity
    \/ SocketWakeup \/ SocketSignal
    \/ WorkerDispatch \/ WorkerReturn \/ WorkerIdle \/ WorkerAbort
    \/ WorkerLocks \/ WorkerLockFails \/ WorkerIncs \/ WorkerWaits
    \/ WorkerSpuriousWake \/ WorkerReacquires \/ WorkerDecs
    \/ WorkerUnlocks \/ WorkerUnlockFails

Spec == Init /\ [][Next]_vars

\* The scheduler runs every runnable thread again and again; a dispatched message
\* callback returns. Nothing forces a spurious wakeup, a failing pthread call or
\* network activity.
StartProgress ==
    StartAlloc \/ StartMutexInit \/ StartCondInit \/ create_thread \/ StartJoin
        \/ free_monitor
MonitorProgress == MonitorTop \/ MonitorCheck \/ MonitorNap \/ MonitorSleep
TimerProgress ==
    TimerTick \/ TimerWakeup \/ TimerSignal \/ TimerSocketExit \/ TimerBroadcast
SocketProgress == SocketPollClosed \/ SocketWakeup \/ SocketSignal
WorkerProgress(i) ==
    \/ WorkerDispatchBegin(i) \/ WorkerDispatchEnd(i) \/ WorkerDispatchIdle(i)
    \/ WorkerCheckAbort(i) \/ WorkerLock(i) \/ WorkerInc(i) \/ WorkerWait(i)
    \/ WorkerReacquire(i) \/ WorkerDec(i) \/ WorkerUnlock(i)

Fairness ==
    /\ WF_vars(StartProgress)
    /\ WF_vars(MonitorProgress)
    /\ WF_vars(TimerProgress)
    /\ WF_vars(SocketProgress)
    /\ \A i \in 0 .. (MaxWorkers - 1) : WF_vars(WorkerProgress(i))

FairSpec == Init /\ [][Next]_vars /\ Fairness

\* As Fairness, but a dispatched message callback need not return.
WorkerProgressStalling(i) ==
    \/ WorkerDispatchBegin(i) \/ WorkerDispatchIdle(i)
    \/ WorkerCheckAbort(i) \/ WorkerLock(i) \/ WorkerInc(i) \/ WorkerWait(i)
    \/ WorkerReacquire(i) \/ WorkerDec(i) \/ WorkerUnlock(i)

StallFairness ==
    /\ WF_vars(StartProgress)
    /\ WF_vars(MonitorProgress)
    /\ WF_vars(TimerProgress)
    /\ WF_vars(SocketProgress)
    /\ \A i \in 0 .. (MaxWorkers - 1) : WF_vars(WorkerProgressStalling(i))

StallSpec == Init /\ [][Next]_vars /\ StallFairness

\* The scenario of _start(4) with skynet_context_total() == 0 from the start,
\* no message ever queued and no failing pthread call.
InitScenario ==
    /\ count = 4
    /\ sleep = 0
    /\ mutex = -1
    /\ mstate = "none"
    /\ opc = "alloc"
    /\ created = 0
    /\ joined = 0
    /\ exited = FALSE
    /\ live = 0
    /\ netExit = FALSE
    /\ mpc = "top"
    /\ mi = 0
    /\ tpc = "tick"
    /\ spc = "poll"
    /\ wpc = [i \in Workers |-> "dispatch"]
    /\ fresh = [i \in Workers |-> FALSE]
    /\ flagged = [i \in Workers |-> FALSE]
    /\ checks = [i \in Workers |-> 0]
    /\ cycle = [i \in Workers |-> 0]

NextScenario ==
    \/ StartAlloc \/ StartMutexInit \/ StartCondInit
    \/ create_thread \/ StartJoin \/ free_monitor
    \/ MonitorTop
    \/ TimerTick \/ TimerSocketExit \/ TimerBroadcast
    \/ SocketPollClosed \/ SocketPollTransient \/ SocketPollActivity \/ SocketWakeup
    \/ WorkerIdle \/ WorkerAbort

ScenarioFairness ==
    /\ WF_vars(StartProgress)
    /\ WF_vars(MonitorTop)
    /\ WF_vars(TimerTick \/ TimerSocketExit \/ TimerBroadcast)
    /\ WF_vars(SocketPollClosed \/ SocketWakeup)
    /\ \A i \in 0 .. 3 : WF_vars(WorkerDispatchIdle(i) \/ WorkerCheckAbort(i))

ScenarioSpec == InitScenario /\ [][NextScenario]_vars /\ ScenarioFairness

----------------------------------------------------------------------------
\* C1: shutdown termination. Once skynet_context_total() is 0, every thread of
\* the pool terminates, the join loop of _start completes and _start returns
\* (unless a failing pthread call has ended the process with exit(1)).
C1_ShutdownTerminates == (live = 0) ~> (opc = "done" \/ exited)

----------------------------------------------------------------------------
\* C2: in every reachable state 0 <= m->sleep <= m->count.
C2_SleepInRange == 0 <= sleep /\ sleep <= count

\* every worker of a pool of more than one is counted asleep
C2_Witness == count > 1 /\ sleep = count /\ \A i \in Workers : wpc[i] = "waiting"

----------------------------------------------------------------------------
\* the next step of pid[k] reads or writes m->sleep
AccessesSleep(k) ==
    IF k = 0 THEN FALSE
    ELSE IF k = 1 THEN tpc = "wakeup"
    ELSE IF k = 2 THEN spc = "wakeup"
    ELSE wpc[k - 3] \in {"inc", "dec"}

\* pid[k] owns m->mutex
HoldsLock(k) == k >= 3 /\ mutex = k - 3

\* C3: a thread that is about to read or write m->sleep holds m->mutex.
C3_SleepAccessUnderLock ==
    \A k \in Threads : (Started(k) /\ AccessesSleep(k)) => HoldsLock(k)

----------------------------------------------------------------------------
\* every worker is blocked in pthread_cond_wait
AllAsleep == \A i \in Workers : wpc[i] = "waiting"

\* C4: no missed-wakeup livelock. With every worker blocked in the wait and live
\* services remaining, the Timer's next wakeup test succeeds, its signal releases
\* a blocked worker, and some worker gets back to calling dispatch (unless a
\* failing pthread call has ended the process).
C4_NoMissedWakeup ==
    /\ [][(tpc = "wakeup" /\ tpc' # tpc /\ AllAsleep) => tpc' = "signal"]_vars
    /\ [][(tpc = "signal" /\ tpc' # tpc /\ Waiting # {})
            => \E i \in Waiting : wpc'[i] = "woken"]_vars
    /\ (AllAsleep /\ live > 0)
         ~> ((\E i \in Workers : wpc[i] = "dispatch") \/ exited)

\* the Timer is about to signal while every worker of a pool of two is blocked
C4_Witness == count > 1 /\ AllAsleep /\ live > 0 /\ tpc = "signal"

----------------------------------------------------------------------------
\* C5: the Timer is about to broadcast, or has broadcast, only after
\* skynet_socket_exit() was called.
C5_ExitBeforeBroadcast == tpc \in {"broadcast", "done"} => netExit

\* the broadcast was issued
C5_Witness == tpc = "done" /\ netExit

----------------------------------------------------------------------------
\* C6 as stated: after network activity the Socket-Poll thread signals whenever
\* at least one worker is counted asleep.
C6_SignalsIfAnyAsleep ==
    [][(spc = "wakeup" /\ spc' # spc /\ sleep >= 1) => spc' = "signal"]_vars

\* C6 as amended: after network activity the Socket-Poll thread signals exactly
\* when every worker is counted asleep (m->sleep >= m->count), and the signal
\* releases one worker blocked in the wait if there is one.
C6_SignalsIffAllAsleep ==
    /\ [][(spc = "wakeup" /\ spc' # spc) => (spc' = "signal" <=> sleep >= count)]_vars
    /\ [][(spc = "signal" /\ spc' # spc /\ Waiting # {})
            => \E i \in Waiting : wpc'[i] = "woken"]_vars

\* the Socket-Poll thread is about to signal a pool of two, both counted asleep
C6_Witness == count > 1 /\ spc = "signal" /\ sleep = count /\ Waiting # {}

----------------------------------------------------------------------------
\* workers a step releases from pthread_cond_wait
Released == {i \in Workers : wpc[i] = "waiting" /\ wpc'[i] = "woken"}

\* C7: the wakeup heuristic. The Timer's wakeup(m, m->count-1) signals exactly
\* when m->sleep >= 1, the Socket-Poll thread's wakeup(m, 0) exactly when
\* m->sleep >= m->count, and a signal releases at most one worker.
C7_WakeupHeuristic ==
    /\ [][(tpc = "wakeup" /\ tpc' # tpc) => (tpc' = "signal" <=> sleep >= 1)]_vars
    /\ [][(spc = "wakeup" /\ spc' # spc) => (spc' = "signal" <=> sleep >= count - 0)]_vars
    /\ [][((tpc = "signal" /\ tpc' # tpc) \/ (spc = "signal" /\ spc' # spc))
            => Cardinality(Released) <= 1]_vars

\* the Timer is about to signal while one worker of two is counted asleep
C7_Witness == count > 1 /\ tpc = "signal" /\ sleep = 1 /\ Cardinality(Waiting) = 1

----------------------------------------------------------------------------
\* C8: in the scenario (4 workers, never any work, no live service from the
\* start) _start returns, and when it has returned the 7 threads have all
\* terminated and been joined and m->sleep is 0.
C8_ScenarioReturns ==
    /\ <>(opc = "done")
    /\ [](opc = "done" =>
            /\ sleep = 0
            /\ joined = 7
            /\ \A k \in Threads : ThreadDone(k))

\* _start(4) has returned
C8_Witness == count = 4 /\ opc = "done" /\ joined = 7 /\ sleep = 0

----------------------------------------------------------------------------
\* C9: the monitor is freed only after every spawned thread has terminated, it
\* exists before any thread is started, and once it is freed no thread takes a
\* step or touches m->sleep, m->mutex or a detector.
C9_FreeAfterJoin ==
    /\ [](mstate = "freed" => \A k \in Threads : Started(k) /\ ThreadDone(k))
    /\ [](\A k \in Threads : Started(k) => mstate # "none")
    /\ [][mstate = "freed" => UNCHANGED <<wpc, mpc, tpc, spc, sleep, mutex, det>>]_vars

\* the monitor of a pool of two was freed
C9_Witness == count > 1 /\ mstate = "freed" /\ opc = "done"

----------------------------------------------------------------------------
\* C10: stall detection. A worker that stays in one dispatch call is flagged once
\* the Watchdog has checked its detector twice during that call; every outer cycle
\* of the Watchdog checks every detector exactly once; raising the flag changes
\* no thread's position and does not end the process; and a worker that never
\* returns from dispatch while live services remain is eventually flagged.
C10_StallFlagged ==
    /\ [](\A i \in Workers : (wpc[i] = "in_dispatch" /\ checks[i] >= 2) => flagged[i])
    /\ [](mpc = "nap" => \A i \in Workers : cycle[i] = 1)
    /\ [][(\E i \in Workers : ~flagged[i] /\ flagged'[i])
            => UNCHANGED <<wpc, tpc, spc, exited, live, opc>>]_vars
    /\ \A i \in 0 .. (MaxWorkers - 1) :
          <>[](i < count /\ wpc[i] = "in_dispatch" /\ live > 0 /\ ~exited)
             => <>(i < count /\ flagged[i])

\* the last worker of a pool of two is stalled and flagged, the other is not
C10_Witness ==
    /\ count > 1
    /\ wpc[count - 1] = "in_dispatch" /\ flagged[count - 1] /\ checks[count - 1] = 2
    /\ ~flagged[0]

----------------------------------------------------------------------------
\* positions of _worker between pthread_mutex_lock returning 0 and
\* pthread_mutex_unlock, outside pthread_cond_wait
LockScope == {"inc", "wait", "dec", "unlock"}

\* C11: a worker that is calling dispatch, or is inside it, does not own
\* m->mutex; the mutex is owned only by a worker between its lock and its
\* unlock around the m->sleep update, and by no other thread.
C11_NoLockAcrossDispatch ==
    /\ mutex \in {-1} \cup Workers
    /\ \A i \in Workers :
          /\ wpc[i] \in {"dispatch", "in_dispatch", "check_abort"} => mutex # i
          /\ mutex = i => wpc[i] \in LockScope

\* one worker is inside dispatch while the other owns the mutex
C11_Witness ==
    \E i, j \in Workers : i # j /\ wpc[i] = "in_dispatch" /\ mutex = j

----------------------------------------------------------------------------
\* C12: the worker state machine. A worker returns only from CHECK_ABORT with
\* skynet_context_total() == 0, and reaches CHECK_ABORT only from a dispatch
\* call that found no message; a worker that has returned never moves again and
\* m->sleep changes only in a step of a worker at its ++ or --; a dispatch call
\* that handled a message is followed by the next dispatch call, with m->mutex,
\* m->sleep untouched.
C12_WorkerStateMachine ==
    /\ [][\A i \in Workers :
            (wpc'[i] = "done" /\ wpc[i] # "done")
               => (wpc[i] = "check_abort" /\ live = 0)]_vars
    /\ [][\A i \in Workers :
            (wpc'[i] = "check_abort" /\ wpc[i] # "check_abort")
               => wpc[i] = "dispatch"]_vars
    /\ [][\A i \in Workers : wpc[i] = "done" => wpc'[i] = "done"]_vars
    /\ [][sleep' # sleep =>
            \E i \in Workers : wpc[i] \in {"inc", "dec"} /\ wpc'[i] # wpc[i]]_vars
    /\ [][\A i \in Workers :
            (wpc[i] = "in_dispatch" /\ wpc'[i] # wpc[i])
               => (wpc'[i] = "dispatch" /\ mutex' = mutex /\ sleep' = sleep)]_vars

\* one worker has returned while the other is still counted asleep
C12_Witness ==
    \E i, j \in Workers : wpc[i] = "done" /\ wpc[j] = "waiting" /\ live = 0

----------------------------------------------------------------------------
\* C13: the Socket-Poll thread returns only from the poll call, when it returned
\* 0 or when it returned a negative value and skynet_context_total() is 0; a
\* negative result with live services left is followed by the next poll call,
\* with no worker released; workers are released by this thread only at its
\* pthread_cond_signal; and once skynet_socket_exit() was called the thread
\* returns (unless a failing pthread call has ended the process).
C13_SocketPollOutcomes ==
    /\ [][(spc' = "done" /\ spc # "done")
            => (spc = "poll" /\ (0 \in skynet_socket_poll \/ live = 0))]_vars
    /\ [][(SocketPollTransient /\ live > 0) => (spc' = "poll" /\ wpc' = wpc)]_vars
    /\ [][(spc \in {"poll", "wakeup"} /\ spc' # spc) => wpc' = wpc]_vars
    /\ netExit ~> (spc = "done" \/ exited)

\* the Socket-Poll thread has returned after skynet_socket_exit(), while a
\* worker is still running
C13_Witness ==
    /\ spc = "done" /\ netExit
    /\ \E i \in Workers : wpc[i] \notin {"done", "dispatch"}

----------------------------------------------------------------------------
\* positions of _timer inside its for (;;) loop
TimerLoop == {"tick", "wakeup", "signal"}

\* C14: the Timer reaches skynet_socket_exit() only from a CHECK_ABORT that saw
\* skynet_context_total() == 0, calls it once and broadcasts once, after which
\* it has returned; a step inside its loop releases at most one worker, and
\* none outside pthread_cond_signal; no step of the Timer changes the owner
\* of m->mutex.
C14_TimerShutdownPath ==
    /\ [](tpc \in {"sockexit", "broadcast", "done"} => live = 0)
    /\ [][(tpc' = "sockexit" /\ tpc # "sockexit") => (tpc = "tick" /\ live = 0)]_vars
    /\ [][netExit' # netExit
            => (~netExit /\ tpc = "sockexit" /\ tpc' = "broadcast")]_vars
    /\ [][(tpc = "broadcast" /\ tpc' # tpc) => tpc' = "done"]_vars
    /\ [][tpc = "done" => tpc' = "done"]_vars
    /\ [][(tpc \in TimerLoop /\ tpc' # tpc)
            => (Cardinality(Released) <= 1 /\ tpc' \in TimerLoop \cup {"sockexit"})]_vars
    /\ [][(tpc \in {"tick", "wakeup", "sockexit"} /\ tpc' # tpc) => wpc' = wpc]_vars
    /\ [][tpc' # tpc => mutex' = mutex]_vars

\* the broadcast has just released the worker that was asleep, in a pool of two
C14_Witness ==
    /\ count > 1 /\ tpc = "done"
    /\ \E i, j \in Workers : wpc[i] = "woken" /\ wpc[j] = "done"

----------------------------------------------------------------------------
\* worker i takes a step of its own out of position p
Leaves(i, p) == wpc[i] = p /\ wpc'[i] # p

\* positions of _worker from the return of pthread_cond_wait to the next wait
\* when dispatch finds no message
ResleepPath == {"woken", "dec", "unlock", "check_abort", "lock", "inc", "wait"}

\* C15: a worker released from pthread_cond_wait re-acquires the mutex,
\* decrements m->sleep by one, unlocks, calls dispatch, and, when dispatch
\* finds no message and skynet_context_total() is not 0, locks, increments
\* m->sleep by one and waits again; no other step of that path changes
\* m->sleep, and a step of the path changes nothing but the worker's own
\* position, m->sleep and the owner of the mutex (a failing
\* pthread_mutex_unlock, which ends the process, aside).
C15_SpuriousWakeupNeutral ==
    /\ [][\A i \in Workers :
            /\ Leaves(i, "woken") => (wpc'[i] = "dec" /\ mutex' = i /\ sleep' = sleep)
            /\ Leaves(i, "dec") => (wpc'[i] = "unlock" /\ sleep' = sleep - 1)
            /\ Leaves(i, "unlock") => (wpc'[i] = "dispatch" /\ mutex' = -1 /\ sleep' = sleep)
            /\ (Leaves(i, "dispatch") /\ wpc'[i] # "in_dispatch")
                  => (wpc'[i] = "check_abort" /\ sleep' = sleep)
            /\ (Leaves(i, "check_abort") /\ live > 0)
                  => (wpc'[i] = "lock" /\ sleep' = sleep)
            /\ Leaves(i, "lock") => (wpc'[i] \in {"inc", "dispatch"} /\ sleep' = sleep)
            /\ Leaves(i, "inc") => (wpc'[i] = "wait" /\ sleep' = sleep + 1)
            /\ Leaves(i, "wait") => (wpc'[i] = "waiting" /\ mutex' = -1 /\ sleep' = sleep)
         ]_vars
    /\ [][\A i \in Workers :
            (\E p \in ResleepPath : Leaves(i, p))
               => /\ UNCHANGED <<count, orch, exited, live, netExit, mon, tpc, spc, det>>
                  /\ \A j \in Workers \ {i} : wpc'[j] = wpc[j]
         ]_vars

\* a worker has been released while every worker is counted asleep and live
\* services remain
C15_Witness ==
    /\ count > 1 /\ live > 0 /\ sleep = count
    /\ \E i \in Workers : wpc[i] = "woken"

----------------------------------------------------------------------------
\* workers that have executed ++ m->sleep and not yet the matching -- m->sleep
Counted == {i \in Workers : wpc[i] \in {"wait", "waiting", "woken", "dec"}}

\* C18: m->sleep is the number of workers between their increment and their
\* matching decrement: holding the mutex just before pthread_cond_wait,
\* blocked in it, released and re-acquiring the mutex, or holding it again
\* just before the decrement; a dispatching or returned worker is not counted.
C18_SleepCountsWaiters == sleep = Cardinality(Counted)

\* both workers of a pool of two are counted, one blocked and one released
C18_Witness ==
    /\ sleep = 2
    /\ \E i, j \in Workers : wpc[i] = "waiting" /\ wpc[j] = "dec"

----------------------------------------------------------------------------
----------------------------------------------------------------------------
\* C17: a failing pthread_create, pthread_mutex_init, pthread_cond_init or
\* pthread_mutex_unlock sets the process exited in that very step and changes
\* nothing else; the process exits in no other way; and once it has exited no
\* thread, started or not, takes a further step.
C17_FatalErrors ==
    /\ [][exited => UNCHANGED vars]_vars
    /\ [][(create_thread_fail \/ StartInitFail \/ WorkerUnlockFails)
            => (exited' /\ UNCHANGED <<count, sleep, mutex, orch, live, netExit,
                                       mon, tpc, spc, wpc, det>>)]_vars
    /\ [][(exited' /\ ~exited)
            => \/ opc \in {"mutex_init", "cond_init", "create"}
               \/ \E i \in Workers : wpc[i] = "unlock" /\ mutex = i]_vars

\* pthread_create of the last worker has failed while worker 0 was inside a
\* dispatch call and no worker was at pthread_mutex_unlock
C17_Witness ==
    /\ exited /\ opc = "create" /\ count > 1 /\ created = count + 2
    /\ wpc[0] = "in_dispatch"

----------------------------------------------------------------------------
\* the steps that call pthread_cond_signal or pthread_cond_broadcast
Signals == TimerSignal \/ TimerBroadcast \/ SocketSignal

\* C19: whenever the Timer or the Socket-Poll thread signals or broadcasts
\* m->cond, every worker counted in m->sleep is blocked in pthread_cond_wait
\* (none is between ++ m->sleep and the wait, or released and not yet at its
\* -- m->sleep).
C19_NoSignalInWindow == [][Signals => Counted \subseteq Waiting]_vars

----------------------------------------------------------------------------
\* C20: a worker whose pthread_mutex_lock fails leaves m->sleep, the mutex
\* and the exited flag as they are and is next at the dispatch call, without
\* increment and without wait; a worker gets past the lock call to the
\* increment only by taking the free mutex; and from the dispatch call it
\* reaches CHECK_ABORT again on the next no-work result.
C20_LockFailureFrame ==
    /\ [][\A i \in Workers :
            WorkerLockFail(i)
               => /\ wpc'[i] = "dispatch"
                  /\ UNCHANGED <<count, sleep, mutex, orch, exited, live, netExit,
                                 mon, tpc, spc, det>>
                  /\ \A j \in Workers \ {i} : wpc'[j] = wpc[j]]_vars
    /\ [][\A i \in Workers :
            Leaves(i, "lock")
               => \/ wpc'[i] = "inc" /\ mutex = -1 /\ mutex' = i
                  \/ wpc'[i] = "dispatch" /\ sleep' = sleep /\ mutex' = mutex
                        /\ exited' = exited]_vars
    /\ [][\A i \in Workers :
            (wpc'[i] \in {"wait", "waiting"} /\ wpc[i] \notin {"wait", "waiting"})
               => (wpc[i] = "inc" /\ mutex = i)]_vars

\* a worker is at pthread_mutex_lock while the other worker holds the mutex
\* and is counted asleep
C20_Witness ==
    /\ sleep = 1
    /\ \E i, j \in Workers : i # j /\ wpc[i] = "lock" /\ mutex = j /\ wpc[j] = "wait"

====
